---- MODULE Spec2Model ----
(***************************************************************************)
(* Model of the SCAI architecture visualisation dashboard.                 *)
(*                                                                         *)
(*   SpecLoad / FairSpecLoad : DataProvider (shared state, loadFiles, the  *)
(*       auto-load started on mount), FileImport (handleLoadFiles) and the *)
(*       Layout flag that shows the import dialog.  Every asynchronous     *)
(*       function is cut at its awaits: one action per synchronous         *)
(*       segment, so that segments of the auto-load and of a user import   *)
(*       interleave as the event loop allows.  The state setters of one    *)
(*       segment are applied together (batched update).                    *)
(*   SpecTransform : transformDataToContentGenFormat applied to bounded    *)
(*       architecture and process documents.                               *)
(*   SpecDiagram : selection and tab state of the Diagram view.            *)
(*   SpecLayers : processArchitectureData applied to bounded               *)
(*       architecture documents.                                           *)
(*   SpecZoom : the zoom level of the Diagram view (buttons, d3-zoom       *)
(*       gestures and the frames of a transition).                         *)
(*   SpecCanvas : ContentGenExplorer.groupResourcesByPhase and the calls   *)
(*       of drawResource made by renderCanvas.                             *)
(*   SpecExplorer : the init effect and the cleanup of the Explorer        *)
(*       component, interleaved with the loads of the DataProvider.        *)
(***************************************************************************)
EXTENDS Integers, Sequences, FiniteSets, TLC

VARIABLES
    \* ---- DataProvider ----
    architectureData, processData, cloudformationData, isDataLoaded, isLoading,
    writer,        \* history: the load operation that last set each document
    autoPc,        \* position of autoLoadFiles
    responses,     \* outcome of the three fetches once Promise.all settled
    \* ---- Layout / FileImport ----
    showImport, archFile, procFile, cfFile, loading, alertMsg,
    lfPc,          \* position of the running loadFiles call
    lfArgs,        \* its arguments
    result,        \* what it resolved to
    loadSeq,       \* number of loadFiles calls started so far
    \* ---- transformDataToContentGenFormat ----
    tArch, tProc, tModel, tPc,
    \* ---- Diagram ----
    dServices, selectedService, detailsOpen, activeTab,
    \* ---- Diagram.processArchitectureData ----
    pData, pOut, pPc,
    \* ---- FlowBrain zoom ----
    zoomLevel,     \* React state, in hundredths
    zoomK,         \* scale of the d3 zoom transform of the svg, in hundredths
    zoomTarget,    \* scale the running transition of applyZoom ends at
    zoomFar,       \* the view is panned far away from the viewport centre
    \* ---- ContentGenExplorer ----
    cArch, cProc,  \* the documents the data of the instance is made from
    cData,         \* this.data, with the key order of data.resources
    explorerPhases,            \* this.phases
    projectManagementResources, securityResources, dataResources, commResources,
    workflowBounds,            \* this.workflowBounds is set
    drawnCards,    \* ids drawResource was called with, in call order
    cPc,
    \* ---- Explorer (component) ----
    eMounted,
    initializedRef, explorerInstanceRef,
    window,        \* the globals the component sets
    constructed,   \* history: instances constructed and stored since the mount
    effectDeps,    \* dependencies the init effect last ran with
    userDocs       \* what the documents in the user's files are like

loadVars == <<architectureData, processData, cloudformationData, isDataLoaded,
              isLoading, writer, autoPc, responses, showImport, archFile,
              procFile, cfFile, loading, alertMsg, lfPc, lfArgs, result, loadSeq>>
sharedState == <<architectureData, processData, cloudformationData, isDataLoaded, isLoading>>
transformVars == <<tArch, tProc, tModel, tPc>>
diagramVars == <<dServices, selectedService, detailsOpen, activeTab>>
layerVars == <<pData, pOut, pPc>>
zoomVars == <<zoomLevel, zoomK, zoomTarget, zoomFar>>
canvasVars == <<cArch, cProc, cData, explorerPhases, projectManagementResources,
                securityResources, dataResources, commResources, workflowBounds,
                drawnCards, cPc>>
explorerVars == <<eMounted, initializedRef, explorerInstanceRef, window, constructed,
                  effectDeps, userDocs>>
nonLoadVars ==
    <<transformVars, diagramVars, layerVars, zoomVars, canvasVars, explorerVars>>
nonTransformVars ==
    <<loadVars, diagramVars, layerVars, zoomVars, canvasVars, explorerVars>>
nonDiagramVars ==
    <<loadVars, transformVars, layerVars, zoomVars, canvasVars, explorerVars>>
nonLayerVars ==
    <<loadVars, transformVars, diagramVars, zoomVars, canvasVars, explorerVars>>
nonZoomVars ==
    <<loadVars, transformVars, diagramVars, layerVars, canvasVars, explorerVars>>
nonCanvasVars ==
    <<loadVars, transformVars, diagramVars, layerVars, zoomVars, explorerVars>>
nonExplorerVars == <<transformVars, diagramVars, layerVars, zoomVars, canvasVars>>
vars == <<loadVars, transformVars, diagramVars, layerVars, zoomVars, canvasVars, explorerVars>>

\* ------------------------------------------------------------------------
\* Bounds
\* ------------------------------------------------------------------------
MaxLoads == 2          \* loadFiles calls started in one session

\* ------------------------------------------------------------------------
\* JavaScript values
\* ------------------------------------------------------------------------
Null == [tag |-> "null"]
Undefined == [tag |-> "undefined"]

\* Contents: the three documents kept on the user's disk (rev 1) and the
\* three served from the public folder (rev 0); anything else is not JSON.
FileText(kind) ==
    CASE kind = "arch" -> "{\"arch\":1}"
      [] kind = "proc" -> "{\"proc\":1}"
      [] kind = "cf" -> "{\"cf\":1}"
BodyText(kind) ==
    CASE kind = "arch" -> "{\"arch\":0}"
      [] kind = "proc" -> "{\"proc\":0}"
      [] kind = "cf" -> "{\"cf\":0}"
BadText == "<!doctype html>"

\* JSON.parse: the parsed document, or the SyntaxError it throws.
JSONParse(text) ==
    CASE text = "{\"arch\":0}" -> [ok |-> TRUE, value |-> [tag |-> "doc", kind |-> "arch", rev |-> 0]]
      [] text = "{\"proc\":0}" -> [ok |-> TRUE, value |-> [tag |-> "doc", kind |-> "proc", rev |-> 0]]
      [] text = "{\"cf\":0}" -> [ok |-> TRUE, value |-> [tag |-> "doc", kind |-> "cf", rev |-> 0]]
      [] text = "{\"arch\":1}" -> [ok |-> TRUE, value |-> [tag |-> "doc", kind |-> "arch", rev |-> 1]]
      [] text = "{\"proc\":1}" -> [ok |-> TRUE, value |-> [tag |-> "doc", kind |-> "proc", rev |-> 1]]
      [] text = "{\"cf\":1}" -> [ok |-> TRUE, value |-> [tag |-> "doc", kind |-> "cf", rev |-> 1]]
      [] OTHER -> [ok |-> FALSE, error |-> "SyntaxError"]

\* A File: text() resolves to its content or rejects.
Files(kind) ==
    {[tag |-> "file", readOk |-> FALSE, text |-> ""],
     [tag |-> "file", readOk |-> TRUE, text |-> BadText],
     [tag |-> "file", readOk |-> TRUE, text |-> FileText(kind)]}

\* e.target.files[0]: a File, or undefined when the picker was cancelled.
Picked(kind) == Files(kind) \cup {Undefined}

Str(x) == [tag |-> "str", v |-> x]
Arr(q) == [tag |-> "arr", v |-> q]
Num(n) == [tag |-> "num", v |-> n]
Bool(b) == [tag |-> "bool", v |-> b]

\* JavaScript truthiness of the values that occur: null, undefined, '', 0 and
\* false are falsy; objects and arrays (the empty array too) are truthy.
Truthy(v) == v \notin {Null, Undefined, Str(""), Num(0), Bool(FALSE)}
\* a || b
Or(a, b) == IF Truthy(a) THEN a ELSE b
\* obj?.field
Opt(obj, field) == IF obj \in {Null, Undefined} THEN Undefined ELSE obj[field]

\* Outcome of fetch(url): rejected, or a response with ok and a body.
FetchOutcomes == {"rejected", "notok", "ok_json", "ok_notjson"}
ResponseOk(o) == o \in {"ok_json", "ok_notjson"}
\* response.json(): parses the body.
ResponseJson(kind, o) == JSONParse(IF o = "ok_json" THEN BodyText(kind) ELSE BadText)

Success == [success |-> TRUE]
Failure(msg) == [success |-> FALSE, error |-> msg]
NoResult == [tag |-> "none"]

\* ------------------------------------------------------------------------
\* DataProvider: state and setters
\* ------------------------------------------------------------------------
NoLoad == -1           \* writer of a document nobody has set yet
AutoLoad == 0          \* the auto-load; a loadFiles call is 1..MaxLoads

InitLoad ==
    /\ architectureData = Null
    /\ processData = Null
    /\ cloudformationData = Null
    /\ isDataLoaded = FALSE
    /\ isLoading = TRUE
    /\ writer = [arch |-> NoLoad, proc |-> NoLoad, cf |-> NoLoad]
    /\ autoPc = "fetching"
    /\ responses = NoResult
    /\ showImport = FALSE
    /\ archFile = Null
    /\ procFile = Null
    /\ cfFile = Null
    /\ loading = FALSE
    /\ alertMsg = ""
    /\ lfPc = "idle"
    /\ lfArgs = NoResult
    /\ result = NoResult
    /\ loadSeq = 0

importVars == <<showImport, archFile, procFile, cfFile, loading, alertMsg>>
callVars == <<lfPc, lfArgs, result, loadSeq>>
autoVars == <<autoPc, responses>>

\* ------------------------------------------------------------------------
\* DataProvider.autoLoadFiles (effect run once on mount)
\* ------------------------------------------------------------------------
\* Variant of AutoLoadCatch: the catch block forgets setIsLoading(false).
AutoLoadCatch_KeepsLoading ==
    /\ autoPc' = "done"
    /\ UNCHANGED <<architectureData, processData, cloudformationData, isDataLoaded,
                   isLoading, writer>>

\* catch (error) { setIsLoading(false) }
AutoLoadCatch ==
    /\ isLoading' = FALSE
    /\ autoPc' = "done"
    /\ UNCHANGED <<architectureData, processData, cloudformationData, isDataLoaded, writer>>

\* setIsDataLoaded(true); setIsLoading(false)
AutoLoadFinish ==
    /\ isDataLoaded' = TRUE
    /\ isLoading' = FALSE
    /\ autoPc' = "done"

\* await Promise.all([fetch, fetch, fetch]) settles; the ok test on the two
\* required responses.
AutoLoadFetched ==
    /\ autoPc = "fetching"
    /\ \E oa \in FetchOutcomes, op \in FetchOutcomes, oc \in FetchOutcomes :
        /\ responses' = [arch |-> oa, proc |-> op, cf |-> oc]
        /\ IF "rejected" \in {oa, op, oc} \/ ~ResponseOk(oa) \/ ~ResponseOk(op)
           THEN AutoLoadCatch
           ELSE /\ autoPc' = "archJson"
                /\ UNCHANGED <<architectureData, processData, cloudformationData,
                               isDataLoaded, isLoading, writer>>
    /\ UNCHANGED <<importVars, callVars>>
    /\ UNCHANGED nonLoadVars

\* await archResponse.json()
AutoLoadArchJson ==
    /\ autoPc = "archJson"
    /\ IF ResponseJson("arch", responses.arch).ok
       THEN /\ autoPc' = "procJson"
            /\ UNCHANGED <<architectureData, processData, cloudformationData,
                           isDataLoaded, isLoading, writer>>
       ELSE AutoLoadCatch
    /\ UNCHANGED <<responses, importVars, callVars>>
    /\ UNCHANGED nonLoadVars

\* await procResponse.json(); setArchitectureData; setProcessData; the
\* cfResponse.ok branch.
AutoLoadProcJson ==
    /\ autoPc = "procJson"
    /\ IF ResponseJson("proc", responses.proc).ok
       THEN /\ architectureData' = ResponseJson("arch", responses.arch).value
            /\ processData' = ResponseJson("proc", responses.proc).value
            /\ IF ResponseOk(responses.cf)
               THEN /\ autoPc' = "cfJson"
                    /\ writer' = [writer EXCEPT !.arch = AutoLoad, !.proc = AutoLoad]
                    /\ UNCHANGED <<cloudformationData, isDataLoaded, isLoading>>
               ELSE /\ AutoLoadFinish
                    /\ writer' = [writer EXCEPT !.arch = AutoLoad, !.proc = AutoLoad]
                    /\ UNCHANGED cloudformationData
       ELSE AutoLoadCatch
    /\ UNCHANGED <<responses, importVars, callVars>>
    /\ UNCHANGED nonLoadVars

\* await cfResponse.json(); setCloudformationData
AutoLoadCfJson ==
    /\ autoPc = "cfJson"
    /\ IF ResponseJson("cf", responses.cf).ok
       THEN /\ cloudformationData' = ResponseJson("cf", responses.cf).value
            /\ writer' = [writer EXCEPT !.cf = AutoLoad]
            /\ AutoLoadFinish
            /\ UNCHANGED <<architectureData, processData>>
       ELSE AutoLoadCatch
    /\ UNCHANGED <<responses, importVars, callVars>>
    /\ UNCHANGED nonLoadVars

AutoLoadStep == AutoLoadFetched \/ AutoLoadArchJson \/ AutoLoadProcJson \/ AutoLoadCfJson

\* ------------------------------------------------------------------------
\* DataProvider.loadFiles(archFile, procFile, cfFile = null)
\* ------------------------------------------------------------------------
\* catch (error) { return { success: false, error: error.message } }
LoadFilesCatch(msg) ==
    /\ result' = Failure(msg)
    /\ lfPc' = "returned"
    /\ UNCHANGED <<architectureData, processData, cloudformationData, isDataLoaded, writer>>

\* setIsDataLoaded(true); return { success: true }
LoadFilesSucceed ==
    /\ isDataLoaded' = TRUE
    /\ result' = Success
    /\ lfPc' = "returned"

\* await archFile.text()
LoadFilesArchText ==
    /\ lfPc = "readArch"
    /\ IF lfArgs.arch.readOk
       THEN /\ lfPc' = "readProc"
            /\ UNCHANGED <<architectureData, processData, cloudformationData,
                           isDataLoaded, writer, result>>
       ELSE LoadFilesCatch("NotReadableError")
    /\ UNCHANGED <<isLoading, autoVars, importVars, lfArgs, loadSeq>>
    /\ UNCHANGED nonLoadVars

\* Variant of LoadFilesProcText: setIsDataLoaded(true) moved up, right after
\* setProcessData and before the CloudFormation file is read.
LoadFilesProcText_EarlyLoaded ==
    /\ lfPc = "readProc"
    /\ IF ~lfArgs.proc.readOk
       THEN LoadFilesCatch("NotReadableError")
       ELSE IF ~JSONParse(lfArgs.arch.text).ok \/ ~JSONParse(lfArgs.proc.text).ok
       THEN LoadFilesCatch("SyntaxError")
       ELSE /\ architectureData' = JSONParse(lfArgs.arch.text).value
            /\ processData' = JSONParse(lfArgs.proc.text).value
            /\ isDataLoaded' = TRUE
            /\ IF Truthy(lfArgs.cf)
               THEN /\ lfPc' = "readCf"
                    /\ writer' = [writer EXCEPT !.arch = loadSeq, !.proc = loadSeq]
                    /\ UNCHANGED <<cloudformationData, result>>
               ELSE /\ cloudformationData' = Null
                    /\ writer' = [arch |-> loadSeq, proc |-> loadSeq, cf |-> loadSeq]
                    /\ result' = Success
                    /\ lfPc' = "returned"
    /\ UNCHANGED <<isLoading, autoVars, importVars, lfArgs, loadSeq>>
    /\ UNCHANGED nonLoadVars

\* await procFile.text(); the two JSON.parse; setArchitectureData;
\* setProcessData; the cfFile branch.
LoadFilesProcText ==
    /\ lfPc = "readProc"
    /\ IF ~lfArgs.proc.readOk
       THEN LoadFilesCatch("NotReadableError")
       ELSE IF ~JSONParse(lfArgs.arch.text).ok \/ ~JSONParse(lfArgs.proc.text).ok
       THEN LoadFilesCatch("SyntaxError")
       ELSE /\ architectureData' = JSONParse(lfArgs.arch.text).value
            /\ processData' = JSONParse(lfArgs.proc.text).value
            /\ IF Truthy(lfArgs.cf)
               THEN /\ lfPc' = "readCf"
                    /\ writer' = [writer EXCEPT !.arch = loadSeq, !.proc = loadSeq]
                    /\ UNCHANGED <<cloudformationData, isDataLoaded, result>>
               ELSE /\ cloudformationData' = Null
                    /\ writer' = [arch |-> loadSeq, proc |-> loadSeq, cf |-> loadSeq]
                    /\ LoadFilesSucceed
    /\ UNCHANGED <<isLoading, autoVars, importVars, lfArgs, loadSeq>>
    /\ UNCHANGED nonLoadVars

\* await cfFile.text(); JSON.parse; setCloudformationData
LoadFilesCfText ==
    /\ lfPc = "readCf"
    /\ IF ~lfArgs.cf.readOk
       THEN LoadFilesCatch("NotReadableError")
       ELSE IF ~JSONParse(lfArgs.cf.text).ok
       THEN LoadFilesCatch("SyntaxError")
       ELSE /\ cloudformationData' = JSONParse(lfArgs.cf.text).value
            /\ writer' = [writer EXCEPT !.cf = loadSeq]
            /\ LoadFilesSucceed
            /\ UNCHANGED <<architectureData, processData>>
    /\ UNCHANGED <<isLoading, autoVars, importVars, lfArgs, loadSeq>>
    /\ UNCHANGED nonLoadVars

LoadFilesStep == LoadFilesArchText \/ LoadFilesProcText \/ LoadFilesCfText

\* ------------------------------------------------------------------------
\* Layout (showImport) and FileImport
\* ------------------------------------------------------------------------
\* FileImport is mounted while showImport holds; its useState values start
\* over at every mount.
FileImportUnmounted ==
    /\ archFile' = Null
    /\ procFile' = Null
    /\ cfFile' = Null
    /\ loading' = FALSE

\* onClose = () => setShowImport(false)
OnClose ==
    /\ showImport' = FALSE
    /\ FileImportUnmounted

\* Layout: the Import Files button
OpenImport ==
    /\ ~showImport
    /\ showImport' = TRUE
    /\ UNCHANGED <<archFile, procFile, cfFile, loading, alertMsg>>
    /\ UNCHANGED <<sharedState, writer, autoVars, callVars>>
    /\ UNCHANGED nonLoadVars

\* FileImport: the close and cancel buttons (absent from the loading view)
CloseImport ==
    /\ showImport /\ ~loading
    /\ OnClose
    /\ UNCHANGED <<alertMsg, sharedState, writer, autoVars, callVars>>
    /\ UNCHANGED nonLoadVars

\* FileImport: the three file inputs
SetArchFile ==
    /\ showImport /\ ~loading
    /\ \E f \in Picked("arch") : archFile' = f
    /\ UNCHANGED <<showImport, procFile, cfFile, loading, alertMsg>>
    /\ UNCHANGED <<sharedState, writer, autoVars, callVars>>
    /\ UNCHANGED nonLoadVars

SetProcFile ==
    /\ showImport /\ ~loading
    /\ \E f \in Picked("proc") : procFile' = f
    /\ UNCHANGED <<showImport, archFile, cfFile, loading, alertMsg>>
    /\ UNCHANGED <<sharedState, writer, autoVars, callVars>>
    /\ UNCHANGED nonLoadVars

SetCfFile ==
    /\ showImport /\ ~loading
    /\ \E f \in Picked("cf") : cfFile' = f
    /\ UNCHANGED <<showImport, archFile, procFile, loading, alertMsg>>
    /\ UNCHANGED <<sharedState, writer, autoVars, callVars>>
    /\ UNCHANGED nonLoadVars

\* FileImport.handleLoadFiles up to its await: the guard on the two required
\* files, setLoading(true), the call of loadFiles.
HandleLoadFiles ==
    /\ showImport /\ ~loading
    /\ IF ~Truthy(archFile) \/ ~Truthy(procFile)
       THEN /\ alertMsg' = "Please select both required files"
            /\ UNCHANGED <<loading, callVars>>
       ELSE /\ loadSeq < MaxLoads
            /\ loading' = TRUE
            /\ loadSeq' = loadSeq + 1
            /\ lfArgs' = [arch |-> archFile, proc |-> procFile,
                          cf |-> IF cfFile = Undefined THEN Null ELSE cfFile]
            /\ lfPc' = "readArch"
            /\ result' = NoResult
            /\ UNCHANGED alertMsg
    /\ UNCHANGED <<showImport, archFile, procFile, cfFile>>
    /\ UNCHANGED <<sharedState, writer, autoVars>>
    /\ UNCHANGED nonLoadVars

\* Variant of HandleLoadFilesResume: onClose is called whatever the result.
HandleLoadFilesResume_AlwaysCloses ==
    /\ lfPc = "returned"
    /\ lfPc' = "idle"
    /\ OnClose
    /\ alertMsg' = (IF result.success THEN alertMsg ELSE result.error)
    /\ lfArgs' = NoResult
    /\ result' = NoResult
    /\ UNCHANGED <<loadSeq, sharedState, writer, autoVars>>
    /\ UNCHANGED nonLoadVars

\* FileImport.handleLoadFiles after the await: setLoading(false), then
\* onClose on success, the error alert otherwise.
HandleLoadFilesResume ==
    /\ lfPc = "returned"
    /\ lfPc' = "idle"
    /\ IF result.success
       THEN /\ OnClose
            /\ UNCHANGED alertMsg
       ELSE /\ loading' = FALSE
            /\ alertMsg' = result.error
            /\ UNCHANGED <<showImport, archFile, procFile, cfFile>>
    /\ lfArgs' = NoResult
    /\ result' = NoResult
    /\ UNCHANGED <<loadSeq, sharedState, writer, autoVars>>
    /\ UNCHANGED nonLoadVars

\* ------------------------------------------------------------------------
\* The other views stay idle under SpecLoad
\* ------------------------------------------------------------------------
IdleTransform ==
    /\ tArch = NoResult
    /\ tProc = NoResult
    /\ tModel = NoResult
    /\ tPc = "off"

\* The DataProvider once an auto-load without CloudFormation template has
\* finished and nothing else is going on: the state the views are shown in.
SettledLoad ==
    /\ architectureData = JSONParse(BodyText("arch")).value
    /\ processData = JSONParse(BodyText("proc")).value
    /\ cloudformationData = Null
    /\ isDataLoaded = TRUE
    /\ isLoading = FALSE
    /\ writer = [arch |-> AutoLoad, proc |-> AutoLoad, cf |-> NoLoad]
    /\ autoPc = "done"
    /\ responses = [arch |-> "ok_json", proc |-> "ok_json", cf |-> "notok"]
    /\ showImport = FALSE
    /\ archFile = Null
    /\ procFile = Null
    /\ cfFile = Null
    /\ loading = FALSE
    /\ alertMsg = ""
    /\ lfPc = "idle"
    /\ lfArgs = NoResult
    /\ result = NoResult
    /\ loadSeq = 0

IdleDiagram ==
    /\ dServices = NoResult
    /\ selectedService = Null
    /\ detailsOpen = FALSE
    /\ activeTab = "overview"

IdleLayers ==
    /\ pData = NoResult
    /\ pOut = NoResult
    /\ pPc = "off"

\* No ContentGenExplorer is being constructed
IdleCanvas ==
    /\ cArch = NoResult
    /\ cProc = NoResult
    /\ cData = NoResult
    /\ explorerPhases = <<>>
    /\ projectManagementResources = <<>>
    /\ securityResources = <<>>
    /\ dataResources = <<>>
    /\ commResources = <<>>
    /\ workflowBounds = FALSE
    /\ drawnCards = <<>>
    /\ cPc = "off"

\* The globals before any Explorer has set them
FreshWindow ==
    [explorer |-> Undefined, toggleSidebar |-> Undefined, fitToView |-> Undefined,
     resetZoom |-> Undefined, toggleConnections |-> Undefined,
     closeDetailsPanel |-> Undefined, switchTab |-> Undefined,
     cloudformationTemplate |-> Undefined]

\* No Explorer has been mounted
IdleExplorer ==
    /\ eMounted = FALSE
    /\ initializedRef = FALSE
    /\ explorerInstanceRef = Null
    /\ window = FreshWindow
    /\ constructed = 0
    /\ effectDeps = NoResult
    /\ userDocs = "good"

\* FlowBrain is not mounted
IdleZoom ==
    /\ zoomLevel = 100
    /\ zoomK = 100
    /\ zoomTarget = NoResult
    /\ zoomFar = FALSE

NextLoad ==
    \/ AutoLoadFetched
    \/ AutoLoadArchJson
    \/ AutoLoadProcJson
    \/ AutoLoadCfJson
    \/ LoadFilesArchText
    \/ LoadFilesProcText
    \/ LoadFilesCfText
    \/ OpenImport
    \/ CloseImport
    \/ SetArchFile
    \/ SetProcFile
    \/ SetCfFile
    \/ HandleLoadFiles
    \/ HandleLoadFilesResume

LoadInit ==
    InitLoad /\ IdleTransform /\ IdleDiagram /\ IdleLayers /\ IdleZoom /\ IdleCanvas
    /\ IdleExplorer

SpecLoad == LoadInit /\ [][NextLoad]_vars

\* Promises settle: a pending continuation of the auto-load or of a
\* loadFiles call is eventually run.
FairSpecLoad == SpecLoad /\ WF_vars(AutoLoadStep) /\ WF_vars(LoadFilesStep)

\* ========================================================================
\* transformDataToContentGenFormat (Explorer.jsx)
\* ========================================================================
MaxArch == 2           \* services in the architecture document
MaxProc == 2           \* resources in processMaps[0]

Ids == {"SCAI-Prod-Core-RequestRouter", "SCAI-Prod-Security-KMS"}
Orders == {"0.5", "1.2"}
Shapes == {"full", "blank", "bare"}

\* String.prototype.includes on the ids of the model
Includes(id, part) ==
    CASE id = "SCAI-Prod-Core-RequestRouter" -> part \in {"-Core-", "RequestRouter"}
      [] id = "SCAI-Prod-Security-KMS" -> part \in {"-Security-"}
      [] id = "SCAI-Prod-Core-ContentEntryAPI" -> part \in {"-Core-", "ContentEntryAPI"}
      [] id = "SCAI-Prod-Core-KeywordValidator" -> part \in {"-Core-"}
      [] id = "SCAI-Prod-Security-Data-Vault" -> part \in {"-Security-", "-Data-"}
      [] id = "SCAI-Prod-Data-ContentTable" -> part \in {"-Data-"}
      [] id = "SCAI-Prod-Comm-EventBus" -> part \in {"-Comm-"}
      [] id = "SCAI-Prod-Core-ProjectManagementAPI" -> part \in {"-Core-"}
      [] OTHER -> FALSE

\* parseFloat of a processOrder, in tenths; Math.floor of a value in tenths
ParseFloat(text) ==
    CASE text = "0.5" -> 5
      [] text = "1.2" -> 12
      [] text = "3.9" -> 39
MathFloor(tenths) == tenths \div 10

\* The optional parts of a resource entry.  "full": everything present;
\* "blank": present but empty ('' and []); "bare": metadata, connections and
\* requirements are missing.  o tells the two documents' texts apart.
MetaOf(o, shape) ==
    CASE shape = "full" ->
            [description |-> Str(IF o = "a" THEN "arch description" ELSE "process description"),
             purpose |-> Str(IF o = "a" THEN "arch purpose" ELSE "process purpose"),
             capabilities |-> Arr(<<IF o = "a" THEN "arch capability" ELSE "process capability">>),
             integrations |-> Arr(<<IF o = "a" THEN "arch integration" ELSE "process integration">>)]
      [] shape = "blank" ->
            [description |-> Str(""), purpose |-> Undefined,
             capabilities |-> Arr(<<>>), integrations |-> Undefined]
      [] shape = "bare" -> Undefined
ConnOf(o, shape) ==
    CASE shape = "full" ->
            [inbound |-> Arr(<<IF o = "a" THEN "arch-in" ELSE "process-in">>),
             outbound |-> Arr(<<IF o = "a" THEN "arch-out" ELSE "process-out">>)]
      [] shape = "blank" -> [inbound |-> Arr(<<>>), outbound |-> Undefined]
      [] shape = "bare" -> Undefined
ReqOf(o, shape) ==
    CASE shape = "full" -> Arr(<<IF o = "a" THEN "arch requirement" ELSE "process requirement">>)
      [] shape = "blank" -> Arr(<<>>)
      [] shape = "bare" -> Undefined

ArchResources ==
    {[id |-> i, name |-> "arch name", type |-> "lambda", category |-> "arch category",
      layer |-> 1, metadata |-> MetaOf("a", sh), connections |-> ConnOf("a", sh),
      requirements |-> ReqOf("a", sh)] : i \in Ids, sh \in Shapes}
ProcResources ==
    {[id |-> i, name |-> "process name", type |-> "dynamodb", category |-> "process category",
      layer |-> 2, processOrder |-> po, metadata |-> MetaOf("p", sh),
      connections |-> ConnOf("p", sh), requirements |-> ReqOf("p", sh)]
        : i \in Ids, po \in Orders, sh \in Shapes}

SeqUpTo(S, n) == UNION {[1..k -> S] : k \in 0..n}

\* Object.entries(architectureData.services) in order; processMaps[0].resources
ArchDocs == {[services |-> q] : q \in SeqUpTo(ArchResources, MaxArch)}
ProcDocs == {[processMaps |-> <<[resources |-> q]>>] : q \in SeqUpTo(ProcResources, MaxProc)}

\* processMap.resources.find(pr => pr.id === id)
RECURSIVE FindFrom(_, _, _)
FindFrom(q, id, k) ==
    IF k > Len(q) THEN Undefined
    ELSE IF q[k].id = id THEN q[k]
    ELSE FindFrom(q, id, k + 1)
Find(q, id) == FindFrom(q, id, 1)

Infrastructure == Str("infrastructure")

\* The special cases: Security, Data, Comm and Monitor ids are cross-cutting.
CrossCutting(id) ==
    \/ Includes(id, "-Security-")
    \/ Includes(id, "-Data-")
    \/ Includes(id, "-Comm-")
    \/ Includes(id, "-Monitor-")

\* Phase of an architecture service given its process entry (or undefined).
ArchPhase(archResource, processResource) ==
    IF Truthy(processResource)
    THEN IF CrossCutting(archResource.id) THEN Infrastructure
         ELSE Num(MathFloor(ParseFloat(processResource.processOrder)))
    ELSE Infrastructure

\* Variant of ProcPhase: the special cases are missing from the second loop.
ProcPhase_NoSpecialCases(processResource) ==
    Num(MathFloor(ParseFloat(processResource.processOrder)))

\* Phase of a resource found only in the process document.
ProcPhase(processResource) ==
    IF CrossCutting(processResource.id) THEN Infrastructure
    ELSE Num(MathFloor(ParseFloat(processResource.processOrder)))

\* Variant of MergeField: the architecture value is preferred to the process value.
MergeField_ArchFirst(pv, av, fallback) == Or(Or(av, pv), fallback)

\* processResource?.x || archResource.x || fallback
MergeField(pv, av, fallback) == Or(Or(pv, av), fallback)

\* The entry built for an architecture service.
ArchEntry(archResource, processResource) ==
    [id |-> archResource.id,
     name |-> archResource.name,
     type |-> archResource.type,
     category |-> archResource.category,
     layer |-> archResource.layer,
     phase |-> ArchPhase(archResource, processResource),
     description |-> MergeField(Opt(Opt(processResource, "metadata"), "description"),
                                Opt(archResource.metadata, "description"), Str("")),
     purpose |-> MergeField(Opt(Opt(processResource, "metadata"), "purpose"),
                            Opt(archResource.metadata, "purpose"), Str("")),
     capabilities |-> MergeField(Opt(Opt(processResource, "metadata"), "capabilities"),
                                 Opt(archResource.metadata, "capabilities"), Arr(<<>>)),
     integrations |-> MergeField(Opt(Opt(processResource, "metadata"), "integrations"),
                                 Opt(archResource.metadata, "integrations"), Arr(<<>>)),
     connections |->
        [inbound |-> MergeField(Opt(Opt(processResource, "connections"), "inbound"),
                                Opt(archResource.connections, "inbound"), Arr(<<>>)),
         outbound |-> MergeField(Opt(Opt(processResource, "connections"), "outbound"),
                                 Opt(archResource.connections, "outbound"), Arr(<<>>))],
     requirements |-> MergeField(Opt(processResource, "requirements"),
                                 archResource.requirements, Arr(<<>>))]

\* The entry built for a resource of the process document only.
ProcEntry(processResource) ==
    [id |-> processResource.id,
     name |-> processResource.name,
     type |-> processResource.type,
     category |-> processResource.category,
     layer |-> processResource.layer,
     phase |-> ProcPhase(processResource),
     description |-> Or(Opt(processResource.metadata, "description"), Str("")),
     purpose |-> Or(Opt(processResource.metadata, "purpose"), Str("")),
     capabilities |-> Or(Opt(processResource.metadata, "capabilities"), Arr(<<>>)),
     integrations |-> Or(Opt(processResource.metadata, "integrations"), Arr(<<>>)),
     connections |->
        [inbound |-> Or(Opt(processResource.connections, "inbound"), Arr(<<>>)),
         outbound |-> Or(Opt(processResource.connections, "outbound"), Arr(<<>>))],
     requirements |-> Or(processResource.requirements, Arr(<<>>))]

\* resources[key] = entry on a plain object
Put(resources, key, entry) ==
    [k \in DOMAIN resources \cup {key} |-> IF k = key THEN entry ELSE resources[k]]

\* Object.entries(architectureData.services).forEach(...)
RECURSIVE AddArchServices(_, _, _, _)
AddArchServices(resources, services, procResources, k) ==
    IF k > Len(services) THEN resources
    ELSE AddArchServices(
            Put(resources, services[k].id,
                ArchEntry(services[k], Find(procResources, services[k].id))),
            services, procResources, k + 1)

\* Variant of AddProcessOnly: the second loop is missing.
AddProcessOnly_Skipped(resources, procResources, k) == resources

\* processMap.resources.forEach(pr => { if (!resources[pr.id]) ... })
RECURSIVE AddProcessOnly(_, _, _)
AddProcessOnly(resources, procResources, k) ==
    IF k > Len(procResources) THEN resources
    ELSE AddProcessOnly(
            IF procResources[k].id \notin DOMAIN resources
            THEN Put(resources, procResources[k].id, ProcEntry(procResources[k]))
            ELSE resources,
            procResources, k + 1)

\* phaseMap: phase number -> ids of the process resources, in document order
RECURSIVE PhaseServices(_, _, _)
PhaseServices(procResources, phaseNum, k) ==
    IF k > Len(procResources) THEN <<>>
    ELSE (IF MathFloor(ParseFloat(procResources[k].processOrder)) = phaseNum
          THEN <<procResources[k].id>> ELSE <<>>)
         \o PhaseServices(procResources, phaseNum, k + 1)

PhaseNumbers == 0..5

\* phaseMap.get(0)?.filter(id => id.includes(part)) || []
SubPhaseServices(services, part) == SelectSeq(services, LAMBDA id : Includes(id, part))

\* The entries of the phases array: phase 0 branches into four sub-phases,
\* phases 1 to 5 are sequential and have none.
PhaseEntry(n, services) ==
    IF n = 0
    THEN [id |-> n, phase |-> n, executionMode |-> "always-active",
          hasSubPhases |-> Bool(TRUE), isBranching |-> Bool(TRUE),
          subPhases |-> Arr(<<
              [name |-> "Entry Point", branchesTo |-> Undefined, branchPosition |-> Undefined,
               services |-> SubPhaseServices(services, "ContentEntryAPI")],
              [name |-> "Router", branchesTo |-> Arr(<<"Manual Path", "Auto Path">>),
               branchPosition |-> Undefined,
               services |-> SubPhaseServices(services, "RequestRouter")],
              [name |-> "Manual Path", branchesTo |-> Undefined, branchPosition |-> Str("top"),
               services |-> SubPhaseServices(services, "ManualEntryHandler")],
              [name |-> "Auto Path", branchesTo |-> Undefined, branchPosition |-> Str("bottom"),
               services |-> SubPhaseServices(services, "AutoPopulationHandler")]>>),
          services |-> services]
    ELSE [id |-> n, phase |-> n, executionMode |-> "sequential",
          hasSubPhases |-> Bool(FALSE), isBranching |-> Undefined, subPhases |-> Undefined,
          services |-> services]

TransformDataToContentGenFormat(architecture, process) ==
    LET processMap == process.processMaps[1]
        resources == AddProcessOnly(
                        AddArchServices(<<>>, architecture.services, processMap.resources, 1),
                        processMap.resources, 1)
    IN  [totalResources |-> Cardinality(DOMAIN resources),
         processFlow |-> [phases |-> [n \in PhaseNumbers |->
                            PhaseEntry(n, PhaseServices(processMap.resources, n, 1))]],
         resources |-> resources]

InitTransform ==
    /\ tArch \in ArchDocs
    /\ tProc \in ProcDocs
    /\ tModel = NoResult
    /\ tPc = "ready"

\* Explorer's effect: contentGenData = transformDataToContentGenFormat(...)
Transform ==
    /\ tPc = "ready"
    /\ tModel' = TransformDataToContentGenFormat(tArch, tProc)
    /\ tPc' = "done"
    /\ UNCHANGED <<tArch, tProc>>
    /\ UNCHANGED nonTransformVars

NextTransform ==
    \/ Transform

TransformInit ==
    InitTransform /\ SettledLoad /\ IdleDiagram /\ IdleLayers /\ IdleZoom /\ IdleCanvas
    /\ IdleExplorer

SpecTransform == TransformInit /\ [][NextTransform]_vars

\* ========================================================================
\* Diagram: selection and detail tabs
\* ========================================================================
MaxServices == 2       \* services in the architecture document shown

ServiceTypes == {"lambda", "dynamodb", "s3", "apigateway"}
ConnectionShapes ==
    {Undefined,
     [inbound |-> Arr(<<>>), outbound |-> Arr(<<>>)],
     [inbound |-> Arr(<<"caller">>), outbound |-> Undefined]}
RequirementShapes == {Undefined, Arr(<<"requirement">>)}

\* processArchitectureData(architectureData).services: { ...service, id }
DiagramServices ==
    UNION {{q \in [1..n -> [id : 1..n, type : ServiceTypes, connections : ConnectionShapes,
                            requirements : RequirementShapes]] :
                \A k \in 1..n : q[k].id = k} : n \in 1..MaxServices}

\* x?.length || 0
LengthOr0(x) == IF x = Undefined THEN 0 ELSE Len(x.v)

\* tabsToShow: the ids of the tabs whose show flag holds
TabsToShow(service) ==
    LET totalConnections == LengthOr0(Opt(service.connections, "inbound"))
                            + LengthOr0(Opt(service.connections, "outbound"))
        serviceReqs == Or(service.requirements, Arr(<<>>))
    IN  {"overview"}
        \cup (IF totalConnections > 0 THEN {"connections"} ELSE {})
        \cup (IF Len(serviceReqs.v) > 0 THEN {"requirements"} ELSE {})
        \cup (IF service.type \in {"lambda", "dynamodb", "s3"} THEN {"config"} ELSE {})
        \cup (IF service.type = "lambda" THEN {"code"} ELSE {})

\* The tab content rendered in the details panel: one component per value
\* of activeTab, inside the selectedService && (...) block.
RenderedTab == IF Truthy(selectedService) THEN activeTab ELSE "none"

InitDiagram ==
    /\ dServices \in DiagramServices
    /\ selectedService = Null
    /\ detailsOpen = FALSE
    /\ activeTab = "overview"

\* Sidebar: selectService(service)
SelectService ==
    /\ \E k \in DOMAIN dServices : selectedService' = dServices[k]
    /\ detailsOpen' = TRUE
    /\ activeTab' = "overview"
    /\ UNCHANGED dServices
    /\ UNCHANGED nonDiagramVars

\* Canvas: the click handler of a service node
NodeClick ==
    /\ \E k \in DOMAIN dServices : selectedService' = dServices[k]
    /\ detailsOpen' = TRUE
    /\ UNCHANGED <<dServices, activeTab>>
    /\ UNCHANGED nonDiagramVars

\* Details panel: a click on one of the tab buttons shown
TabClick ==
    /\ Truthy(selectedService)
    /\ \E tab \in TabsToShow(selectedService) : activeTab' = tab
    /\ UNCHANGED <<dServices, selectedService, detailsOpen>>
    /\ UNCHANGED nonDiagramVars

\* Details panel: closeDetails (the button is rendered with a selection)
CloseDetails ==
    /\ Truthy(selectedService)
    /\ detailsOpen' = FALSE
    /\ selectedService' = Null
    /\ UNCHANGED <<dServices, activeTab>>
    /\ UNCHANGED nonDiagramVars

NextDiagram ==
    \/ SelectService
    \/ NodeClick
    \/ TabClick
    \/ CloseDetails

DiagramInit ==
    InitDiagram /\ SettledLoad /\ IdleTransform /\ IdleLayers /\ IdleZoom /\ IdleCanvas
    /\ IdleExplorer

SpecDiagram == DiagramInit /\ [][NextDiagram]_vars

\* ========================================================================
\* Diagram.processArchitectureData
\* ========================================================================
MaxLayered == 3        \* services in the document grouped into layers

\* service.layer of the documents: missing, or a number
LayerValues == {Undefined, Num(0), Num(1), Num(3)}
\* service.connections: missing, or one outbound target given by its id
OutboundShapes == {Undefined, [outbound |-> Arr(<<"target">>)]}

\* An entry of data.layers
LayerDoc(n) ==
    [id |-> n, name |-> "defined layer", color |-> "#123456", description |-> Str("as defined")]
\* data.layers: missing, or an array
LayersValues == {Undefined, Arr(<<>>), Arr(<<LayerDoc(3)>>), Arr(<<LayerDoc(3), LayerDoc(1)>>)}

\* The documents: null, one without services, or services keyed 1..n
LayeredDocs ==
    {Null, [layers |-> Undefined, services |-> Undefined]}
    \cup {[layers |-> l, services |-> Arr(q)] :
            l \in LayersValues,
            q \in UNION {{e \in [1..n -> [key : 1..n, layer : LayerValues,
                                           connections : OutboundShapes]] :
                            \A k \in 1..n : e[k].key = k} : n \in 0..MaxLayered}}

\* getLayerColor
GetLayerColor(layerNumber) ==
    CASE layerNumber = 1 -> "#3b82f6"
      [] layerNumber = 2 -> "#a855f7"
      [] layerNumber = 3 -> "#ec4899"
      [] layerNumber = 4 -> "#f59e0b"
      [] layerNumber = 5 -> "#10b981"
      [] OTHER -> "#6b7280"

\* data.layers.forEach(layer => layerDefinitions[layer.id] = {...})
RECURSIVE LayerDefinitions(_, _, _)
LayerDefinitions(defs, layers, k) ==
    IF k > Len(layers) THEN defs
    ELSE LayerDefinitions(
            Put(defs, layers[k].id,
                [number |-> layers[k].id, name |-> layers[k].name, color |-> layers[k].color,
                 description |-> layers[k].description, services |-> <<>>]),
            layers, k + 1)

\* const layerNumber = service.layer || 1
LayerNumber(service) == Or(service.layer, Num(1)).v

\* { ...service, id }
WithId(entry) == [id |-> entry.key, layer |-> entry.layer, connections |-> entry.connections]

\* Object.entries(data.services).forEach(([id, service]) => ...): the first loop
RECURSIVE GroupByLayer(_, _, _, _)
GroupByLayer(acc, layerDefinitions, entries, k) ==
    IF k > Len(entries) THEN acc
    ELSE LET service == entries[k]
             layerNumber == LayerNumber(service)
             layers == IF layerNumber \in DOMAIN acc.layers THEN acc.layers
                       ELSE Put(acc.layers, layerNumber,
                                IF layerNumber \in DOMAIN layerDefinitions
                                THEN layerDefinitions[layerNumber]
                                ELSE [number |-> layerNumber, name |-> <<"Layer ", layerNumber>>,
                                      color |-> GetLayerColor(layerNumber),
                                      description |-> Undefined, services |-> <<>>])
         IN  GroupByLayer(
                [layers |-> [layers EXCEPT ![layerNumber].services = @ \o <<WithId(service)>>],
                 services |-> acc.services \o <<WithId(service)>>],
                layerDefinitions, entries, k + 1)

\* The second loop: one connection per outbound target
RECURSIVE OutboundConnections(_, _)
OutboundConnections(entries, k) ==
    IF k > Len(entries) THEN <<>>
    ELSE (IF Truthy(Opt(entries[k].connections, "outbound"))
          THEN [j \in DOMAIN entries[k].connections.outbound.v |->
                    [from |-> entries[k].key, to |-> entries[k].connections.outbound.v[j],
                     type |-> "default"]]
          ELSE <<>>)
         \o OutboundConnections(entries, k + 1)

\* Object.values of an object with integer keys: in ascending key order
RECURSIVE ObjectValues(_)
ObjectValues(obj) ==
    IF DOMAIN obj = {} THEN <<>>
    ELSE LET least == CHOOSE n \in DOMAIN obj : \A m \in DOMAIN obj : n <= m
         IN  <<obj[least]>> \o ObjectValues([n \in DOMAIN obj \ {least} |-> obj[n]])

\* Array.prototype.sort((a, b) => a.number - b.number): stable insertion
RECURSIVE InsertByNumber(_, _)
InsertByNumber(sorted, layer) ==
    IF sorted = <<>> THEN <<layer>>
    ELSE IF sorted[Len(sorted)].number - layer.number <= 0 THEN Append(sorted, layer)
    ELSE Append(InsertByNumber(SubSeq(sorted, 1, Len(sorted) - 1), layer), sorted[Len(sorted)])
RECURSIVE SortByNumber(_)
SortByNumber(q) ==
    IF q = <<>> THEN <<>>
    ELSE InsertByNumber(SortByNumber(SubSeq(q, 1, Len(q) - 1)), q[Len(q)])

ProcessArchitectureData(data) ==
    IF ~Truthy(data) \/ ~Truthy(data.services)
    THEN [layers |-> <<>>, services |-> <<>>, connections |-> <<>>]
    ELSE LET layerDefinitions ==
                 IF Truthy(data.layers) /\ data.layers.tag = "arr"
                 THEN LayerDefinitions(<<>>, data.layers.v, 1) ELSE <<>>
             grouped == GroupByLayer([layers |-> <<>>, services |-> <<>>],
                                     layerDefinitions, data.services.v, 1)
         IN  [layers |-> SortByNumber(ObjectValues(grouped.layers)),
              services |-> grouped.services,
              connections |-> OutboundConnections(data.services.v, 1)]

InitLayers ==
    /\ pData \in LayeredDocs
    /\ pOut = NoResult
    /\ pPc = "ready"

\* Diagram's effect: const processed = processArchitectureData(architectureData)
ProcessArchitecture ==
    /\ pPc = "ready"
    /\ pOut' = ProcessArchitectureData(pData)
    /\ pPc' = "done"
    /\ UNCHANGED pData
    /\ UNCHANGED nonLayerVars

NextLayers ==
    \/ ProcessArchitecture

LayersInit ==
    InitLayers /\ SettledLoad /\ IdleTransform /\ IdleDiagram /\ IdleZoom /\ IdleCanvas
    /\ IdleExplorer

SpecLayers == LayersInit /\ [][NextLayers]_vars

\* ========================================================================
\* FlowBrain: zoom controls and the d3 zoom behaviour
\* ========================================================================
\* Scales are in hundredths: 100 is the scale 1.0.
MinZoom == 50          \* Math.max(..., 0.5) and scaleExtent[0]
MaxZoom == 250         \* Math.min(..., 2.5) and scaleExtent[1]
ZoomStep == 25         \* zoomLevel + 0.25, zoomLevel - 0.25
DefaultZoom == 100     \* useState(1.0), resetZoom

\* The scales the model tells apart: the multiples of 0.05 from 0.25 on.
Scales == {s \in 25..MaxZoom : s % 5 = 0}

\* d3.zoom().scaleExtent([0.5, 2.5]): a wheel gesture is clamped to it.
ScaleExtent == {s \in Scales : MinZoom <= s /\ s <= MaxZoom}

Min(a, b) == IF a <= b THEN a ELSE b
Max(a, b) == IF a >= b THEN a ELSE b

\* The scales event.transform.k takes while the transition started by
\* applyZoom runs from scale k0 to scale k1.  zoom.transform does not clamp
\* to the scale extent, and the transition follows d3.interpolateZoom
\* between the two views around the viewport centre: the scale never exceeds
\* the larger of k0 and k1, and it stays between them unless the two view
\* centres are far apart for the view widths, in which case the path zooms
\* out first (with the translation (-1500, 0) in an 800 x 600 viewport the
\* transition from 0.75 to 0.5 passes through 0.42).
TransitionScales(k0, k1, far) ==
    {s \in Scales : s <= Max(k0, k1) /\ (far \/ s >= Min(k0, k1))}

InitZoom ==
    /\ zoomLevel = DefaultZoom
    /\ zoomK = DefaultZoom
    /\ zoomTarget = NoResult
    /\ zoomFar = FALSE

\* applyZoom(scale): a transition of the svg to the same translation and the
\* new scale; it replaces a transition that is still running.
ApplyZoom(scale) ==
    /\ zoomTarget' = Num(scale)
    /\ UNCHANGED <<zoomK, zoomFar>>

\* The + button (disabled while zoomLevel >= 2.5)
ZoomIn ==
    /\ ~(zoomLevel >= MaxZoom)
    /\ LET newZoom == Min(zoomLevel + ZoomStep, MaxZoom)
       IN  /\ zoomLevel' = newZoom
           /\ ApplyZoom(newZoom)
    /\ UNCHANGED nonZoomVars

\* The - button (disabled while zoomLevel <= 0.5)
ZoomOut ==
    /\ ~(zoomLevel <= MinZoom)
    /\ LET newZoom == Max(zoomLevel - ZoomStep, MinZoom)
       IN  /\ zoomLevel' = newZoom
           /\ ApplyZoom(newZoom)
    /\ UNCHANGED nonZoomVars

\* The reset button
ResetZoom ==
    /\ zoomLevel' = DefaultZoom
    /\ ApplyZoom(DefaultZoom)
    /\ UNCHANGED nonZoomVars

\* A frame of the running transition before its last one: the zoom handler
\* runs with the interpolated transform, setZoomLevel(event.transform.k).
TransitionFrame ==
    /\ zoomTarget # NoResult
    /\ \E k \in TransitionScales(zoomK, zoomTarget.v, zoomFar) :
        /\ zoomK' = k
        /\ zoomLevel' = k
    /\ UNCHANGED <<zoomTarget, zoomFar>>
    /\ UNCHANGED nonZoomVars

\* The last frame of the transition: the transform is the target itself.
TransitionEnd ==
    /\ zoomTarget # NoResult
    /\ zoomK' = zoomTarget.v
    /\ zoomLevel' = zoomTarget.v
    /\ zoomTarget' = NoResult
    /\ UNCHANGED zoomFar
    /\ UNCHANGED nonZoomVars

\* A wheel gesture (allowed everywhere by the filter): it interrupts the
\* transition, scales about the pointer within the scale extent, and the
\* zoom handler runs.
WheelZoom ==
    /\ \E k \in ScaleExtent :
        /\ zoomK' = k
        /\ zoomLevel' = k
    /\ zoomTarget' = NoResult
    /\ zoomFar' \in BOOLEAN
    /\ UNCHANGED nonZoomVars

\* A drag on the background: it interrupts the transition, pans at the
\* current scale, and the zoom handler runs.
DragPan ==
    /\ zoomLevel' = zoomK
    /\ zoomTarget' = NoResult
    /\ zoomFar' \in BOOLEAN
    /\ UNCHANGED zoomK
    /\ UNCHANGED nonZoomVars

NextZoom ==
    \/ ZoomIn
    \/ ZoomOut
    \/ ResetZoom
    \/ TransitionFrame
    \/ TransitionEnd
    \/ WheelZoom
    \/ DragPan

ZoomInit ==
    InitZoom /\ SettledLoad /\ IdleTransform /\ IdleDiagram /\ IdleLayers /\ IdleCanvas
    /\ IdleExplorer

SpecZoom == ZoomInit /\ [][NextZoom]_vars

\* ========================================================================
\* ContentGenExplorer: constructor, init, groupResourcesByPhase, renderCanvas
\* ========================================================================
MaxCanvas == 3         \* resources in the two documents together

CanvasIds ==
    {"SCAI-Prod-Core-ContentEntryAPI", "SCAI-Prod-Core-KeywordValidator",
     "SCAI-Prod-Security-KMS", "SCAI-Prod-Security-Data-Vault",
     "SCAI-Prod-Data-ContentTable", "SCAI-Prod-Comm-EventBus",
     "SCAI-Prod-Core-ProjectManagementAPI"}

\* A resource of the documents: only in the architecture document ("none"),
\* or in the process document with a processOrder.
CanvasItems == [id : CanvasIds, order : {"none", "0.5", "1.2"}]
CanvasInputs ==
    UNION {{q \in [1..n -> CanvasItems] : \A i, j \in 1..n : q[i].id = q[j].id => i = j}
            : n \in 0..MaxCanvas}

CanvasArch(item) ==
    [id |-> item.id, name |-> "arch name", type |-> "lambda", category |-> "arch category",
     layer |-> 1, metadata |-> MetaOf("a", "bare"), connections |-> ConnOf("a", "bare"),
     requirements |-> ReqOf("a", "bare")]
CanvasProc(item) ==
    [id |-> item.id, name |-> "process name", type |-> "dynamodb",
     category |-> "process category", layer |-> 2, processOrder |-> item.order,
     metadata |-> MetaOf("p", "bare"), connections |-> ConnOf("p", "bare"),
     requirements |-> ReqOf("p", "bare")]

RECURSIVE ArchOf(_, _)
ArchOf(items, k) ==
    IF k > Len(items) THEN <<>>
    ELSE (IF items[k].order = "none" THEN <<CanvasArch(items[k])>> ELSE <<>>)
         \o ArchOf(items, k + 1)
RECURSIVE ProcOf(_, _)
ProcOf(items, k) ==
    IF k > Len(items) THEN <<>>
    ELSE (IF items[k].order # "none" THEN <<CanvasProc(items[k])>> ELSE <<>>)
         \o ProcOf(items, k + 1)

Range(q) == {q[k] : k \in DOMAIN q}

\* Key order of the resources object: a key keeps the place of its first
\* assignment (the architecture services, then the process-only resources).
RECURSIVE InsertionOrder(_, _, _)
InsertionOrder(keys, entries, k) ==
    IF k > Len(entries) THEN keys
    ELSE InsertionOrder(IF entries[k].id \in Range(keys) THEN keys
                        ELSE Append(keys, entries[k].id),
                        entries, k + 1)
ResourceKeys(architecture, process) ==
    InsertionOrder(InsertionOrder(<<>>, architecture.services, 1),
                   process.processMaps[1].resources, 1)

ProjectManagementIds ==
    {"SCAI-Prod-Core-ProjectManagementAPI", "SCAI-Prod-Core-ProjectCRUDHandler",
     "SCAI-Prod-Core-ProjectQueryHandler", "SCAI-Prod-Core-ProjectDeletionHandler"}

\* getPhaseInfo(phaseNum)
GetPhaseInfo(data, phaseNum) ==
    LET phases == data.processFlow.phases
        found == {n \in DOMAIN phases : phaseNum.tag = "num" /\ phases[n].phase = phaseNum.v}
    IN  IF found # {}
        THEN LET phaseData == phases[CHOOSE n \in found : \A m \in found : n <= m]
             IN  [executionMode |-> phaseData.executionMode,
                  hasSubPhases |-> phaseData.hasSubPhases,
                  subPhases |-> phaseData.subPhases,
                  isBranching |-> phaseData.isBranching]
        ELSE IF phaseNum = Infrastructure
        THEN [executionMode |-> "always-active", hasSubPhases |-> Undefined,
              subPhases |-> Undefined, isBranching |-> Undefined]
        ELSE [executionMode |-> "sequential", hasSubPhases |-> Undefined,
              subPhases |-> Undefined, isBranching |-> Undefined]

\* The entry created in phaseMap for a phase met for the first time
NewPhaseGroup(data, phase) ==
    LET phaseInfo == GetPhaseInfo(data, phase)
    IN  [phase |-> phase,
         executionMode |-> phaseInfo.executionMode,
         hasSubPhases |-> Or(phaseInfo.hasSubPhases, Bool(FALSE)),
         subPhases |-> Or(phaseInfo.subPhases, Null),
         isBranching |-> Or(phaseInfo.isBranching, Bool(FALSE)),
         resources |-> <<>>]

\* phaseMap[phase].resources.push(resource), creating the entry when missing.
\* phaseMap is kept as the sequence of its entries in creation order; a
\* resource is held by its id, the key of the one object it is.
PushToPhase(phaseMap, data, id) ==
    LET phase == data.resources[id].phase
        with == IF \E k \in DOMAIN phaseMap : phaseMap[k].phase = phase THEN phaseMap
                ELSE Append(phaseMap, NewPhaseGroup(data, phase))
    IN  [k \in DOMAIN with |->
            IF with[k].phase = phase
            THEN [with[k] EXCEPT !.resources = Append(@, id)]
            ELSE with[k]]

\* Variant of GroupOne: the return after the push to securityResources is
\* missing, so a Security resource is filed under its phase as well.
GroupOne_SecurityFallsThrough(acc, data, id) ==
    LET phase == data.resources[id].phase
    IN  IF phase = Str("project-management") \/ id \in ProjectManagementIds
        THEN [acc EXCEPT !.projectManagementResources = Append(@, id)]
        ELSE IF phase \in {Null, Undefined} THEN acc
        ELSE IF Includes(id, "-Security-")
        THEN [acc EXCEPT !.securityResources = Append(@, id),
                         !.phaseMap = PushToPhase(@, data, id)]
        ELSE IF Includes(id, "-Data-")
        THEN [acc EXCEPT !.dataResources = Append(@, id)]
        ELSE IF Includes(id, "-Comm-")
        THEN [acc EXCEPT !.commResources = Append(@, id)]
        ELSE [acc EXCEPT !.phaseMap = PushToPhase(@, data, id)]

\* The body of Object.values(this.data.resources).forEach(resource => ...)
GroupOne(acc, data, id) ==
    LET phase == data.resources[id].phase
    IN  IF phase = Str("project-management") \/ id \in ProjectManagementIds
        THEN [acc EXCEPT !.projectManagementResources = Append(@, id)]
        ELSE IF phase \in {Null, Undefined} THEN acc
        ELSE IF Includes(id, "-Security-")
        THEN [acc EXCEPT !.securityResources = Append(@, id)]
        ELSE IF Includes(id, "-Data-")
        THEN [acc EXCEPT !.dataResources = Append(@, id)]
        ELSE IF Includes(id, "-Comm-")
        THEN [acc EXCEPT !.commResources = Append(@, id)]
        ELSE [acc EXCEPT !.phaseMap = PushToPhase(@, data, id)]

RECURSIVE GroupAll(_, _, _)
GroupAll(acc, data, k) ==
    IF k > Len(data.keys) THEN acc
    ELSE GroupAll(GroupOne(acc, data, data.keys[k]), data, k + 1)

\* Object.values(phaseMap): the entries under integer keys in ascending key
\* order, then those under other keys in creation order.
RECURSIVE NumericAscending(_)
NumericAscending(groups) ==
    IF groups = {} THEN <<>>
    ELSE LET least == CHOOSE g \in groups : \A h \in groups : g.phase.v <= h.phase.v
         IN  <<least>> \o NumericAscending(groups \ {least})
ObjectValuesOfPhaseMap(phaseMap) ==
    NumericAscending({g \in Range(phaseMap) : g.phase.tag = "num"})
    \o SelectSeq(phaseMap, LAMBDA g : g.phase.tag # "num")

\* .sort((a, b) => a.phase - b.phase): a.phase - b.phase is NaN when one of
\* them is 'infrastructure', which sorts as equal; stable insertion.
RECURSIVE InsertByPhase(_, _)
InsertByPhase(sorted, group) ==
    IF sorted = <<>> THEN <<group>>
    ELSE LET last == sorted[Len(sorted)]
         IN  IF last.phase.tag = "num" /\ group.phase.tag = "num"
                /\ last.phase.v - group.phase.v > 0
             THEN Append(InsertByPhase(SubSeq(sorted, 1, Len(sorted) - 1), group), last)
             ELSE Append(sorted, group)
RECURSIVE SortByPhase(_)
SortByPhase(q) ==
    IF q = <<>> THEN <<>>
    ELSE InsertByPhase(SortByPhase(SubSeq(q, 1, Len(q) - 1)), q[Len(q)])

\* groupResourcesByPhase(): the four separate lists and this.phases
GroupResourcesByPhase(data) ==
    LET grouped == GroupAll([projectManagementResources |-> <<>>, securityResources |-> <<>>,
                             dataResources |-> <<>>, commResources |-> <<>>,
                             phaseMap |-> <<>>], data, 1)
    IN  [projectManagementResources |-> grouped.projectManagementResources,
         securityResources |-> grouped.securityResources,
         dataResources |-> grouped.dataResources,
         commResources |-> grouped.commResources,
         phases |-> SortByPhase(ObjectValuesOfPhaseMap(grouped.phaseMap))]

\* ---- renderCanvas ----
\* The ids drawResource is called with, per drawing function, in call order.

\* subPhases.find(test), or undefined; passing is the set of the sub-phases
\* the test accepts
RECURSIVE FindSubPhase(_, _, _)
FindSubPhase(subPhases, passing, k) ==
    IF k > Len(subPhases) THEN Undefined
    ELSE IF subPhases[k] \in passing THEN subPhases[k]
    ELSE FindSubPhase(subPhases, passing, k + 1)

\* if (sp.services && sp.services.length > 0) { resource = phase.resources
\* .find(r => r.id === sp.services[0]); if (resource) drawResource(...) }
DrawFirstService(phase, subPhase) ==
    IF Len(subPhase.services) > 0 /\ subPhase.services[1] \in Range(phase.resources)
    THEN <<subPhase.services[1]>>
    ELSE <<>>

\* drawBranchingSubPhases: entry point, router, manual path, auto path
DrawBranchingSubPhases(phase) ==
    LET subs == phase.subPhases.v
        all == Range(subs)
        entrySubPhase == FindSubPhase(subs, {sp \in all : sp.name = "Entry Point"}, 1)
        routerSubPhase == FindSubPhase(subs, {sp \in all : Truthy(sp.branchesTo)}, 1)
        topBranch == FindSubPhase(subs, {sp \in all : sp.branchPosition = Str("top")}, 1)
        bottomBranch == FindSubPhase(subs, {sp \in all : sp.branchPosition = Str("bottom")}, 1)
    IN  DrawFirstService(phase, entrySubPhase) \o DrawFirstService(phase, routerSubPhase)
        \o DrawFirstService(phase, topBranch) \o DrawFirstService(phase, bottomBranch)

\* subPhase.services.forEach(serviceId => { resource = phase.resources.find(
\* r => r.id === serviceId); if (resource) drawResource(...) })
RECURSIVE DrawServices(_, _, _)
DrawServices(phase, services, k) ==
    IF k > Len(services) THEN <<>>
    ELSE (IF services[k] \in Range(phase.resources) THEN <<services[k]>> ELSE <<>>)
         \o DrawServices(phase, services, k + 1)
RECURSIVE DrawSequentialSubPhases(_, _)
DrawSequentialSubPhases(phase, k) ==
    IF k > Len(phase.subPhases.v) THEN <<>>
    ELSE DrawServices(phase, phase.subPhases.v[k].services, 1)
         \o DrawSequentialSubPhases(phase, k + 1)

\* drawSubPhases
DrawSubPhases(phase) ==
    IF Truthy(phase.isBranching) THEN DrawBranchingSubPhases(phase)
    ELSE DrawSequentialSubPhases(phase, 1)

\* The early return of drawPhase (a group made by groupResourcesByPhase has
\* no isConfigurationPhase); phase._bounds is set unless it is taken.
SkippedPhase(phase) == phase.executionMode = "configuration"

\* drawPhase: the parallel layout (first resource, then the others) and the
\* sequential one both draw every resource of the phase.
DrawPhase(phase) ==
    IF SkippedPhase(phase) THEN <<>>
    ELSE IF Truthy(phase.hasSubPhases) /\ Truthy(phase.subPhases) THEN DrawSubPhases(phase)
    ELSE phase.resources

RECURSIVE DrawPhases(_, _)
DrawPhases(phases, k) ==
    IF k > Len(phases) THEN <<>>
    ELSE DrawPhase(phases[k]) \o DrawPhases(phases, k + 1)

\* drawWorkflowPhasesWrapper sets this.workflowBounds when a phase numbered
\* 0 to 7 has bounds.
WorkflowBounds(phases) ==
    \E k \in DOMAIN phases :
        /\ phases[k].phase.tag = "num"
        /\ phases[k].phase.v >= 0 /\ phases[k].phase.v <= 7
        /\ ~SkippedPhase(phases[k])

\* drawSecurityResources draws its list wherever the workflow box is
DrawSecurityResources(list) == list

\* drawDataResources, drawCommResources, drawProjectManagementResources:
\* if (!this.workflowBounds) return
DrawBeside(list, bounds) == IF bounds THEN list ELSE <<>>

\* renderCanvas
RenderCanvas(grouped) ==
    LET bounds == WorkflowBounds(grouped.phases)
    IN  DrawPhases(grouped.phases, 1)
        \o DrawSecurityResources(grouped.securityResources)
        \o DrawBeside(grouped.dataResources, bounds)
        \o DrawBeside(grouped.commResources, bounds)
        \o DrawBeside(grouped.projectManagementResources, bounds)

InitCanvas ==
    /\ \E items \in CanvasInputs :
        /\ cArch = [services |-> ArchOf(items, 1)]
        /\ cProc = [processMaps |-> <<[resources |-> ProcOf(items, 1)]>>]
    /\ cData = NoResult
    /\ explorerPhases = <<>>
    /\ projectManagementResources = <<>>
    /\ securityResources = <<>>
    /\ dataResources = <<>>
    /\ commResources = <<>>
    /\ workflowBounds = FALSE
    /\ drawnCards = <<>>
    /\ cPc = "ready"

\* Explorer's effect: contentGenData = transformDataToContentGenFormat(...)
TransformForExplorer ==
    /\ cPc = "ready"
    /\ cData' = [keys |-> ResourceKeys(cArch, cProc),
                 resources |-> TransformDataToContentGenFormat(cArch, cProc).resources,
                 processFlow |-> TransformDataToContentGenFormat(cArch, cProc).processFlow]
    /\ cPc' = "transformed"
    /\ UNCHANGED <<cArch, cProc, explorerPhases, projectManagementResources,
                   securityResources, dataResources, commResources, workflowBounds,
                   drawnCards>>
    /\ UNCHANGED nonCanvasVars

\* new ContentGenExplorer(contentGenData): the constructor and init()
NewContentGenExplorer ==
    /\ cPc = "transformed"
    /\ LET grouped == GroupResourcesByPhase(cData)
       IN  /\ explorerPhases' = grouped.phases
           /\ projectManagementResources' = grouped.projectManagementResources
           /\ securityResources' = grouped.securityResources
           /\ dataResources' = grouped.dataResources
           /\ commResources' = grouped.commResources
           /\ workflowBounds' = WorkflowBounds(grouped.phases)
           /\ drawnCards' = RenderCanvas(grouped)
    /\ cPc' = "done"
    /\ UNCHANGED <<cArch, cProc, cData>>
    /\ UNCHANGED nonCanvasVars

NextCanvas ==
    \/ TransformForExplorer
    \/ NewContentGenExplorer

CanvasInit ==
    InitCanvas /\ SettledLoad /\ IdleTransform /\ IdleDiagram /\ IdleLayers /\ IdleZoom
    /\ IdleExplorer

SpecCanvas == CanvasInit /\ [][NextCanvas]_vars

\* ========================================================================
\* Explorer (component): the init effect and the cleanup on unmount
\* ========================================================================
\* The documents in the user's files all parse; they are complete, or the
\* architecture file has a service without name under an id of fewer than
\* four parts, or the process file has no processMaps.
UserDocShapes == {"good", "archNoName", "procNoMaps"}

\* The documents served from the public folder (rev 0) are complete.
DocShape(doc) == IF doc.rev = 0 THEN "good" ELSE userDocs

\* processData.processMaps[0] throws a TypeError without processMaps
TransformThrows(process) == DocShape(process) = "procNoMaps"

\* drawResource passes resource.name to wrapText when the id has fewer than
\* four parts, and wrapText reads text.length
ConstructorThrows(architecture) == DocShape(architecture) = "archNoName"

\* The dependency array of the init effect
Deps ==
    [tag |-> "deps", isDataLoaded |-> isDataLoaded, architectureData |-> architectureData,
     processData |-> processData, cloudformationData |-> cloudformationData]

\* The state of the DataProvider while the import dialog is open with the
\* files picked and the auto-load still waits for its responses.
ImportReady ==
    /\ architectureData = Null
    /\ processData = Null
    /\ cloudformationData = Null
    /\ isDataLoaded = FALSE
    /\ isLoading = TRUE
    /\ writer = [arch |-> NoLoad, proc |-> NoLoad, cf |-> NoLoad]
    /\ autoPc = "fetching"
    /\ responses = NoResult
    /\ showImport = TRUE
    /\ archFile = [tag |-> "file", readOk |-> TRUE, text |-> FileText("arch")]
    /\ procFile = [tag |-> "file", readOk |-> TRUE, text |-> FileText("proc")]
    /\ cfFile \in {Null, [tag |-> "file", readOk |-> TRUE, text |-> FileText("cf")]}
    /\ loading = FALSE
    /\ alertMsg = ""
    /\ lfPc = "idle"
    /\ lfArgs = NoResult
    /\ result = NoResult
    /\ loadSeq = 0

InitExplorer ==
    /\ eMounted = FALSE
    /\ initializedRef = FALSE
    /\ explorerInstanceRef = Null
    /\ window = FreshWindow
    /\ constructed = 0
    /\ effectDeps = NoResult
    /\ userDocs \in UserDocShapes

\* The component is mounted: useRef(null), useRef(false)
MountExplorer ==
    /\ ~eMounted
    /\ eMounted' = TRUE
    /\ initializedRef' = FALSE
    /\ explorerInstanceRef' = Null
    /\ constructed' = 0
    /\ effectDeps' = NoResult
    /\ UNCHANGED <<window, userDocs>>
    /\ UNCHANGED <<loadVars, nonExplorerVars>>

\* explorerInstanceRef.current = new ContentGenExplorer(contentGenData) and
\* the assignments after it
StoreInstance ==
    /\ explorerInstanceRef' = Num(constructed + 1)
    /\ constructed' = constructed + 1
    /\ window' = [explorer |-> Num(constructed + 1), toggleSidebar |-> Str("toggleSidebar"),
                  fitToView |-> Str("fitToView"), resetZoom |-> Str("resetZoom"),
                  toggleConnections |-> Str("toggleConnections"),
                  closeDetailsPanel |-> Str("closeDetailsPanel"),
                  switchTab |-> Str("switchTab"),
                  cloudformationTemplate |-> cloudformationData]
    /\ initializedRef' = TRUE

\* Variant of InitEffect: the test of initializedRef.current and the test of
\* explorerInstanceRef.current are missing.
InitEffect_Unguarded ==
    /\ eMounted
    /\ effectDeps # Deps
    /\ effectDeps' = Deps
    /\ IF isDataLoaded
       THEN IF TransformThrows(processData)
            THEN UNCHANGED <<initializedRef, explorerInstanceRef, window, constructed>>
            ELSE IF ConstructorThrows(architectureData)
                 THEN /\ window' = [window EXCEPT
                                        !.cloudformationTemplate = cloudformationData]
                      /\ UNCHANGED <<initializedRef, explorerInstanceRef, constructed>>
                 ELSE StoreInstance
       ELSE UNCHANGED <<initializedRef, explorerInstanceRef, window, constructed>>
    /\ UNCHANGED <<eMounted, userDocs>>
    /\ UNCHANGED <<loadVars, nonExplorerVars>>

\* The init effect: it runs after the mount and after every render in which
\* one of its dependencies has changed.
InitEffect ==
    /\ eMounted
    /\ effectDeps # Deps
    /\ effectDeps' = Deps
    /\ IF isDataLoaded /\ ~initializedRef
       THEN IF TransformThrows(processData)
            THEN UNCHANGED <<initializedRef, explorerInstanceRef, window, constructed>>
            ELSE IF explorerInstanceRef # Null
                 THEN /\ window' = [window EXCEPT
                                        !.cloudformationTemplate = cloudformationData]
                      /\ UNCHANGED <<initializedRef, explorerInstanceRef, constructed>>
                 ELSE IF ConstructorThrows(architectureData)
                 THEN /\ window' = [window EXCEPT
                                        !.cloudformationTemplate = cloudformationData]
                      /\ UNCHANGED <<initializedRef, explorerInstanceRef, constructed>>
                 ELSE StoreInstance
       ELSE UNCHANGED <<initializedRef, explorerInstanceRef, window, constructed>>
    /\ UNCHANGED <<eMounted, userDocs>>
    /\ UNCHANGED <<loadVars, nonExplorerVars>>

\* The component is unmounted: the cleanup of the second effect
UnmountExplorer ==
    /\ eMounted
    /\ eMounted' = FALSE
    /\ IF explorerInstanceRef # Null
       THEN /\ explorerInstanceRef' = Null
            /\ window' = [explorer |-> Null, toggleSidebar |-> Null, fitToView |-> Null,
                          resetZoom |-> Null, toggleConnections |-> Null,
                          closeDetailsPanel |-> Null, switchTab |-> Null,
                          cloudformationTemplate |-> Null]
            /\ initializedRef' = FALSE
       ELSE UNCHANGED <<explorerInstanceRef, window, initializedRef>>
    /\ UNCHANGED <<constructed, effectDeps, userDocs>>
    /\ UNCHANGED <<loadVars, nonExplorerVars>>

NextExplorer ==
    \/ MountExplorer
    \/ InitEffect
    \/ UnmountExplorer
    \/ AutoLoadFetched
    \/ AutoLoadArchJson
    \/ AutoLoadProcJson
    \/ AutoLoadCfJson
    \/ LoadFilesArchText
    \/ LoadFilesProcText
    \/ LoadFilesCfText
    \/ HandleLoadFiles
    \/ HandleLoadFilesResume

ExplorerInit ==
    ImportReady /\ InitExplorer /\ IdleTransform /\ IdleDiagram /\ IdleLayers /\ IdleZoom
    /\ IdleCanvas

SpecExplorer == ExplorerInit /\ [][NextExplorer]_vars

\* ========================================================================
\* Claims about DataProvider and FileImport
\* ========================================================================
\* Every file of the call reads and parses (the CloudFormation file may be absent).
FilesAllGood(args) ==
    /\ args.arch.readOk /\ JSONParse(args.arch.text).ok
    /\ args.proc.readOk /\ JSONParse(args.proc.text).ok
    /\ args.cf # Null => (args.cf.readOk /\ JSONParse(args.cf.text).ok)

Returning == lfPc # "returned" /\ lfPc' = "returned"

\* C1: a loadFiles call whose architecture and process files read and parse,
\* and whose CloudFormation file is absent or reads and parses, returns
\* {success: true}, and at its return architectureData and processData hold
\* the two parsed documents, cloudformationData the parsed CloudFormation
\* document (null without a file) and isDataLoaded is true.
C1_LoadFilesSuccess ==
    [][(Returning /\ FilesAllGood(lfArgs)) =>
          /\ result' = Success
          /\ architectureData' = JSONParse(lfArgs.arch.text).value
          /\ processData' = JSONParse(lfArgs.proc.text).value
          /\ cloudformationData' = (IF lfArgs.cf = Null THEN Null
                                    ELSE JSONParse(lfArgs.cf.text).value)
          /\ isDataLoaded']_vars

\* C2: loadFiles never throws: a call with a file that fails to read or to
\* parse resolves to {success: false, error: message}, every call resolves
\* to a result object, and no step of a call other than its successful
\* return sets isDataLoaded.
C2_LoadFilesNeverThrows ==
    /\ [](lfPc \in {"idle", "readArch", "readProc", "readCf", "returned"})
    /\ [](lfPc = "returned" =>
            /\ result \in {Success, Failure("NotReadableError"), Failure("SyntaxError")}
            /\ ~FilesAllGood(lfArgs) => result.success = FALSE)
    /\ [][(lfPc \in {"readArch", "readProc", "readCf"} /\ lfPc' # lfPc
           /\ ~(lfPc' = "returned" /\ result' = Success))
          => isDataLoaded' = isDataLoaded]_vars

\* A call failed on its CloudFormation file, after the two required
\* documents were set, and isDataLoaded is still false.
C2_Witness ==
    /\ lfPc = "returned"
    /\ result = Failure("SyntaxError")
    /\ lfArgs.cf # Null
    /\ JSONParse(lfArgs.arch.text).ok /\ JSONParse(lfArgs.proc.text).ok
    /\ writer.arch = loadSeq
    /\ ~isDataLoaded

\* C3: whenever isDataLoaded is true, the visible documents come from one
\* load operation: architectureData and processData have the same writer,
\* and cloudformationData is null or has that writer too.
C3_SingleSnapshot ==
    isDataLoaded =>
        /\ writer.arch = writer.proc
        /\ cloudformationData = Null \/ writer.cf = writer.arch

\* C4: when /architecture.json and /process.json are fetched ok and parse,
\* the auto-load ends with isDataLoaded true whatever happened to
\* /cloudformation.json.
C4_CloudFormationOptional ==
    (autoPc = "done" /\ responses.arch = "ok_json" /\ responses.proc = "ok_json")
        => isDataLoaded

\* C9: isLoading, true at mount, eventually becomes false on every path of
\* the auto-load and stays false; it is false once the auto-load is over.
C9_IsLoadingSettles ==
    /\ <>[](isLoading = FALSE)
    /\ [](autoPc = "done" => isLoading = FALSE)

\* The auto-load ended in its catch block.
C9_Witness ==
    /\ autoPc = "done"
    /\ isLoading = FALSE
    /\ responses.arch = "notok"
    /\ ~isDataLoaded

\* C10: handleLoadFiles calls loadFiles only with both required files
\* selected; with one missing it only alerts (no load, no change of shared
\* state, dialog still open); when the call resolves loading is false and
\* the dialog is closed exactly when the result is success.
C10_HandleLoadFiles ==
    /\ [](lfPc # "idle" => (Truthy(lfArgs.arch) /\ Truthy(lfArgs.proc) /\ showImport /\ loading))
    /\ [][(lfPc = "idle" /\ lfPc' # "idle")
          => (Truthy(archFile) /\ Truthy(procFile) /\ loading'
              /\ lfArgs'.arch = archFile /\ lfArgs'.proc = procFile)]_vars
    /\ [][(showImport /\ ~loading /\ (~Truthy(archFile) \/ ~Truthy(procFile))
           /\ alertMsg' # alertMsg)
          => (UNCHANGED <<sharedState, callVars, showImport, loading>>)]_vars
    /\ [][(lfPc = "returned" /\ lfPc' = "idle")
          => (loading' = FALSE /\ (showImport' = FALSE <=> result.success))]_vars

\* A failed load has resolved: the dialog is still open, not loading, and
\* shows the error.
C10_Witness ==
    /\ lfPc = "idle"
    /\ loadSeq > 0
    /\ showImport /\ ~loading
    /\ alertMsg = "SyntaxError"

\* The latest loadFiles call returned success and no later call has started:
\* only the successful end of call loadSeq makes it the writer of
\* cloudformationData.
ImportStands == loadSeq >= 1 /\ writer.cf = loadSeq /\ lfPc \in {"returned", "idle"}

\* C18: a user import is never overwritten by the auto-load: once a loadFiles
\* call has returned success, no step other than the start of the next
\* loadFiles call changes architectureData, processData or
\* cloudformationData, a late completion of the auto-load included.
C18_ImportNotOverwritten ==
    [][(ImportStands /\ loadSeq' = loadSeq)
          => UNCHANGED <<architectureData, processData, cloudformationData>>]_vars

\* ========================================================================
\* Claims about transformDataToContentGenFormat
\* ========================================================================
ArchIds == {tArch.services[k].id : k \in DOMAIN tArch.services}
ProcIds == {tProc.processMaps[1].resources[k].id : k \in DOMAIN tProc.processMaps[1].resources}

\* The architecture entry that ends up under id (the last one written) and
\* the process entry used for id (the first one found).
LastArch(id) ==
    LET ks == {k \in DOMAIN tArch.services : tArch.services[k].id = id}
    IN  tArch.services[CHOOSE k \in ks : \A j \in ks : j <= k]
FirstProc(id) ==
    LET q == tProc.processMaps[1].resources
        ks == {k \in DOMAIN q : q[k].id = id}
    IN  q[CHOOSE k \in ks : \A j \in ks : k <= j]

Preferred(out, pv, av, empty) ==
    IF Truthy(pv) THEN out = pv
    ELSE IF Truthy(av) THEN out = av
    ELSE out = empty

\* C6: for a resource in both documents name, type, category and layer come
\* from the architecture entry and description, purpose, capabilities,
\* integrations, inbound/outbound connections and requirements from the
\* process entry when truthy there, else from the architecture entry, else
\* '' or []; a resource only in the process document takes every field from
\* its process entry.
C6_MergePrecedence ==
    tPc = "done" =>
        /\ \A id \in ArchIds \cap ProcIds :
            LET r == tModel.resources[id]
                a == LastArch(id)
                p == FirstProc(id)
            IN  /\ r.name = a.name /\ r.type = a.type
                /\ r.category = a.category /\ r.layer = a.layer
                /\ Preferred(r.description, Opt(p.metadata, "description"),
                             Opt(a.metadata, "description"), Str(""))
                /\ Preferred(r.purpose, Opt(p.metadata, "purpose"),
                             Opt(a.metadata, "purpose"), Str(""))
                /\ Preferred(r.capabilities, Opt(p.metadata, "capabilities"),
                             Opt(a.metadata, "capabilities"), Arr(<<>>))
                /\ Preferred(r.integrations, Opt(p.metadata, "integrations"),
                             Opt(a.metadata, "integrations"), Arr(<<>>))
                /\ Preferred(r.connections.inbound, Opt(p.connections, "inbound"),
                             Opt(a.connections, "inbound"), Arr(<<>>))
                /\ Preferred(r.connections.outbound, Opt(p.connections, "outbound"),
                             Opt(a.connections, "outbound"), Arr(<<>>))
                /\ Preferred(r.requirements, p.requirements, a.requirements, Arr(<<>>))
        /\ \A id \in ProcIds \ ArchIds :
            LET r == tModel.resources[id]
                p == FirstProc(id)
            IN  /\ r.name = p.name /\ r.type = p.type
                /\ r.category = p.category /\ r.layer = p.layer
                /\ Preferred(r.description, Opt(p.metadata, "description"), Undefined, Str(""))
                /\ Preferred(r.purpose, Opt(p.metadata, "purpose"), Undefined, Str(""))
                /\ Preferred(r.capabilities, Opt(p.metadata, "capabilities"), Undefined, Arr(<<>>))
                /\ Preferred(r.integrations, Opt(p.metadata, "integrations"), Undefined, Arr(<<>>))
                /\ Preferred(r.connections.inbound, Opt(p.connections, "inbound"), Undefined, Arr(<<>>))
                /\ Preferred(r.connections.outbound, Opt(p.connections, "outbound"), Undefined, Arr(<<>>))
                /\ Preferred(r.requirements, p.requirements, Undefined, Arr(<<>>))

\* A resource in both documents whose process entry is blank and whose
\* architecture entry is full: '' falls back to the architecture text while
\* the empty (truthy) process list wins; next to it a process-only resource.
C6_Witness ==
    /\ tPc = "done"
    /\ \E id \in ArchIds \cap ProcIds :
        /\ tModel.resources[id].description = Str("arch description")
        /\ tModel.resources[id].capabilities = Arr(<<>>)
        /\ tModel.resources[id].name = "arch name"
    /\ \E id \in ProcIds \ ArchIds : tModel.resources[id].name = "process name"

\* C11: a resource gets phase 'infrastructure' if it has no entry in the
\* process document or if its id contains '-Security-', '-Data-', '-Comm-'
\* or '-Monitor-'; every other resource gets floor(processOrder) of its
\* process entry; the rule does not depend on which document the resource
\* was found in.
C11_PhaseAssignment ==
    tPc = "done" =>
        \A id \in DOMAIN tModel.resources :
            tModel.resources[id].phase =
                IF id \notin ProcIds
                       \/ Includes(id, "-Security-") \/ Includes(id, "-Data-")
                       \/ Includes(id, "-Comm-") \/ Includes(id, "-Monitor-")
                THEN Str("infrastructure")
                ELSE Num(MathFloor(ParseFloat(FirstProc(id).processOrder)))

\* A Security resource found only in the process document is
\* infrastructure, next to a Core service of both documents in phase 1.
C11_Witness ==
    /\ tPc = "done"
    /\ ArchIds = {"SCAI-Prod-Core-RequestRouter"}
    /\ ProcIds = {"SCAI-Prod-Core-RequestRouter", "SCAI-Prod-Security-KMS"}
    /\ tModel.resources["SCAI-Prod-Security-KMS"].phase = Str("infrastructure")
    /\ tModel.resources["SCAI-Prod-Core-RequestRouter"].phase = Num(1)

\* The ids listed in a sequence of service ids
Listed(services) == {services[k] : k \in DOMAIN services}

\* C19: the returned model is consistent about phases: every id listed in
\* the services of a phase of processFlow.phases has that phase in
\* resources, and every resource whose phase is a number is listed in the
\* services of the phase with that number.
C19_PhaseConsistency ==
    tPc = "done" =>
        /\ \A n \in DOMAIN tModel.processFlow.phases :
            LET p == tModel.processFlow.phases[n]
            IN  \A id \in Listed(p.services) : tModel.resources[id].phase = Num(p.phase)
        /\ \A id \in DOMAIN tModel.resources :
            LET phase == tModel.resources[id].phase
            IN  phase.tag = "num" =>
                    \E n \in DOMAIN tModel.processFlow.phases :
                        /\ tModel.processFlow.phases[n].phase = phase.v
                        /\ id \in Listed(tModel.processFlow.phases[n].services)

\* ========================================================================
\* Claims about the Diagram view
\* ========================================================================
\* C8: whenever a service is selected the active tab is one of the tabs
\* offered for it, and the Code tab content is rendered only for lambda
\* services.
C8_ActiveTabOffered ==
    Truthy(selectedService) =>
        /\ activeTab \in TabsToShow(selectedService)
        /\ RenderedTab = "code" => selectedService.type = "lambda"

\* ========================================================================
\* Claims about Diagram.processArchitectureData
\* ========================================================================
\* The services of the document (none when the document has no services)
DocServices == IF Truthy(pData) /\ Truthy(pData.services) THEN pData.services.v ELSE <<>>

\* Positions (layer index, service index) of the returned layers holding id
PlacesOf(id) ==
    {<<i, j>> \in (DOMAIN pOut.layers) \X (1..MaxLayered + 1) :
        j \in DOMAIN pOut.layers[i].services /\ pOut.layers[i].services[j].id = id}

RECURSIVE SumOfCounts(_, _)
SumOfCounts(layers, k) ==
    IF k > Len(layers) THEN 0 ELSE Len(layers[k].services) + SumOfCounts(layers, k + 1)

\* The returned layers are ascending, none is empty, and the counts add up
LayersWellFormed ==
    /\ \A i, j \in DOMAIN pOut.layers : i < j => pOut.layers[i].number < pOut.layers[j].number
    /\ \A i \in DOMAIN pOut.layers : Len(pOut.layers[i].services) >= 1
    /\ SumOfCounts(pOut.layers, 1) = Len(pOut.services)
    /\ Len(pOut.services) = Len(DocServices)

\* C16: every architecture service is in exactly one returned
\* layer, the one numbered service.layer, or layer 1 when service.layer is
\* missing; the layers are ascending, none is empty, and the layers' service
\* counts add up to the length of the services list and to the number of
\* services in the document.
C16_ServicesInLayers ==
    pPc = "done" =>
        /\ \A k \in DOMAIN DocServices :
            /\ Cardinality(PlacesOf(DocServices[k].key)) = 1
            /\ \A pl \in PlacesOf(DocServices[k].key) :
                pOut.layers[pl[1]].number =
                    IF DocServices[k].layer = Undefined THEN 1 ELSE DocServices[k].layer.v
        /\ LayersWellFormed

\* ========================================================================
\* Claims about the FlowBrain zoom
\* ========================================================================
\* C17: the zoom level stays within [0.5, 2.5] in every reachable state, for
\* any interleaving of zoomIn, zoomOut, resetZoom and the zoom events of
\* wheel, drag and transition.
C17_ZoomLevelInRange ==
    MinZoom <= zoomLevel /\ zoomLevel <= MaxZoom

\* ========================================================================
\* Claims about ContentGenExplorer
\* ========================================================================
\* How many times id occurs in the list q
Occurrences(q, id) == Cardinality({k \in DOMAIN q : q[k] = id})

\* The lists groupResourcesByPhase fills: the four separate ones, then the
\* resources of every phase group
Buckets ==
    <<projectManagementResources, securityResources, dataResources, commResources>>
    \o [k \in DOMAIN explorerPhases |-> explorerPhases[k].resources]

\* The bucket a resource belongs in: "pm", "security", "data", "comm", or
\* its phase
BucketOf(id) ==
    IF cData.resources[id].phase = Str("project-management") \/ id \in ProjectManagementIds
    THEN "pm"
    ELSE IF Includes(id, "-Security-") THEN "security"
    ELSE IF Includes(id, "-Data-") THEN "data"
    ELSE IF Includes(id, "-Comm-") THEN "comm"
    ELSE "phase"

\* C12: groupResourcesByPhase partitions the resources: every resource with
\* a non-null phase is in exactly one of the lists, once, namely the first
\* that applies of projectManagementResources, securityResources ('-Security-'),
\* dataResources ('-Data-'), commResources ('-Comm-') and the phase group
\* whose phase is resource.phase; and the lists hold nothing else.
C12_GroupingPartitions ==
    cPc = "done" =>
        /\ \A id \in DOMAIN cData.resources :
            cData.resources[id].phase \notin {Null, Undefined} =>
                /\ \E b \in DOMAIN Buckets :
                    /\ Occurrences(Buckets[b], id) = 1
                    /\ \A c \in DOMAIN Buckets : c # b => Occurrences(Buckets[c], id) = 0
                /\ Occurrences(projectManagementResources, id)
                       = (IF BucketOf(id) = "pm" THEN 1 ELSE 0)
                /\ Occurrences(securityResources, id)
                       = (IF BucketOf(id) = "security" THEN 1 ELSE 0)
                /\ Occurrences(dataResources, id) = (IF BucketOf(id) = "data" THEN 1 ELSE 0)
                /\ Occurrences(commResources, id) = (IF BucketOf(id) = "comm" THEN 1 ELSE 0)
                /\ \A k \in DOMAIN explorerPhases :
                    Occurrences(explorerPhases[k].resources, id)
                        = (IF BucketOf(id) = "phase"
                              /\ explorerPhases[k].phase = cData.resources[id].phase
                           THEN 1 ELSE 0)
        /\ \A b \in DOMAIN Buckets : Range(Buckets[b]) \subseteq DOMAIN cData.resources
        /\ \A j, k \in DOMAIN explorerPhases :
            explorerPhases[j].phase = explorerPhases[k].phase => j = k

\* A project-management resource with a processOrder, a resource whose id
\* has both '-Security-' and '-Data-', and a Core resource of phase 1 have
\* been grouped: one in each of three buckets.
C12_Witness ==
    /\ cPc = "done"
    /\ projectManagementResources = <<"SCAI-Prod-Core-ProjectManagementAPI">>
    /\ cData.resources["SCAI-Prod-Core-ProjectManagementAPI"].phase = Num(1)
    /\ securityResources = <<"SCAI-Prod-Security-Data-Vault">>
    /\ dataResources = <<>>
    /\ Len(explorerPhases) = 1
    /\ explorerPhases[1].phase = Num(1)
    /\ explorerPhases[1].resources = <<"SCAI-Prod-Core-KeywordValidator">>

\* C13: after init every resource of data.resources has been drawn as
\* exactly one card: drawResource was called for it once.
C13_EveryResourceDrawn ==
    cPc = "done" =>
        \A id \in DOMAIN cData.resources : Occurrences(drawnCards, id) = 1

\* ========================================================================
\* Claims about the Explorer component
\* ========================================================================
\* C14: while an Explorer stays mounted at most one ContentGenExplorer is
\* created and stored, and once initializedRef is true no step that leaves
\* the component mounted (a later change of the documents and the run of the
\* init effect it causes included) stores a new instance or replaces
\* window.explorer or window.cloudformationTemplate.
C14_SingleInstance ==
    /\ [](eMounted => constructed <= 1)
    /\ [][(eMounted /\ initializedRef /\ eMounted')
          => /\ constructed' = constructed
             /\ explorerInstanceRef' = explorerInstanceRef
             /\ window'.explorer = window.explorer
             /\ window'.cloudformationTemplate = window.cloudformationTemplate]_vars

\* The instance was made from the auto-loaded documents, without template;
\* then the user's import, with a CloudFormation file, replaced the three
\* documents and the init effect has run again.
C14_Witness ==
    /\ eMounted /\ initializedRef
    /\ constructed = 1
    /\ window.explorer = Num(1)
    /\ window.cloudformationTemplate = Null
    /\ writer = [arch |-> 1, proc |-> 1, cf |-> 1]
    /\ cloudformationData # Null
    /\ effectDeps = Deps

\* JavaScript == null
Nullish(v) == v \in {Null, Undefined}

\* C15: whenever the Explorer is unmounted, window.explorer, the six helper
\* globals and window.cloudformationTemplate are null (or were never set)
\* and initializedRef is false.
C15_CleanupOnUnmount ==
    ~eMounted =>
        /\ Nullish(window.explorer)
        /\ Nullish(window.toggleSidebar)
        /\ Nullish(window.fitToView)
        /\ Nullish(window.resetZoom)
        /\ Nullish(window.toggleConnections)
        /\ Nullish(window.closeDetailsPanel)
        /\ Nullish(window.switchTab)
        /\ Nullish(window.cloudformationTemplate)
        /\ initializedRef = FALSE

====
